---- MODULE Spec2Model ----
(***************************************************************************)
(* A model of igdb_query_all (src/igdb_data.py): one extraction run that   *)
(* obtains an app access token, removes a file already at out_csv, then    *)
(* pages through an IGDB endpoint with limit/offset, retrying on HTTP 429, *)
(* and appends every non-empty batch to the CSV file.                      *)
(*                                                                         *)
(* The remote servers are the environment: every status and every batch    *)
(* length they may answer with is a nondeterministic choice.  A record of  *)
(* a batch is identified by its position in the server's result, so a CSV  *)
(* line is <<"header", 0>>, <<"row", id>> or, for content that was in the  *)
(* file before the run, <<"old", k>>.                                      *)
(***************************************************************************)
EXTENDS Integers, Sequences, FiniteSets, TLC

\* ---------------------------------------------------------------- bounds
\* Pages whose records are followed cell by cell.
MaxRowPages == 2
\* Records in such a page.
MaxBatchLen == 2
\* Pages with records that the server may return in one run.
MaxPages == 2
\* HTTP 429 answers the server may give in one run.
Max429 == 2

\* ------------------------------------------------------ program constants
\* limit = 500   # IGDB max per request
limit == 500
\* time.sleep(1.0) after a 429, in milliseconds
BackoffMs == 1000
\* sleep_between=0.35, in milliseconds
sleep_between == 350
\* max_rows=None: no row cap (None and 0 are both falsy in "if max_rows and ...")
None == 0

\* ------------------------------------------------------------ environment
\* Row caps a caller passes as max_rows.
MaxRowsChoices == {None, 3, 50, 1000}
\* Lengths of the batch a 2xx answer carries: empty, short pages, a full page.
BatchLens == {0, 1, 3, limit}
\* HTTP statuses the IGDB endpoint answers a page request with.
Statuses == {200, 429, 404, 503}
\* HTTP statuses the token endpoint answers with.
TokenStatuses == {200, 400, 503}
\* What may be at out_csv before the run: nothing, an empty file, an earlier CSV.
PreExisting ==
    { [exists |-> FALSE, lines |-> <<>>],
      [exists |-> TRUE, lines |-> <<>>],
      [exists |-> TRUE, lines |-> << <<"header", 0>>, <<"old", 1>> >>] }

VARIABLES
    pc,          \* where the run stands
    max_rows,    \* the max_rows argument
    token,       \* access token held by the run ("" before the exchange)
    offset,      \* offset of the next page request
    total,       \* rows written so far
    csv,         \* the file at out_path: [exists, lines]
    r,           \* the response being handled: [status_code, n]
    pre,         \* the file at out_path when the run was called
    log,         \* what the run did, in order
    recording,   \* whether the run is being logged
    result,      \* what igdb_query_all returned
    stdout,      \* the row counts printed
    rpc,         \* rows: where the handling of a page stands
    raw,         \* rows: the page as r.json() gave it
    batch,       \* rows: the page, flattened in place
    sheet,       \* rows: the cells of the file at out_path
    nwrites      \* rows: the to_csv calls made

\* The variables of the handling of a page's records.
rowvars == <<rpc, raw, batch, sheet, nwrites>>

vars == <<pc, max_rows, token, offset, total, csv, r, pre, log, recording,
          result, stdout, rowvars>>

\* An entry of the log.
Ev(op, x, y, auth) == [op |-> op, x |-> x, y |-> y, auth |-> auth]

\* The log with more entries, when the run is logged.
Logged(entries) == IF recording THEN log \o entries ELSE log

\* Positions of the log by kind.
At(op) == {i \in 1..Len(log) : log[i].op = op}

NoResponse == [status_code |-> 0, n |-> 0]

\* What a call has returned: nothing yet, Python's None, or an integer.
Running == [kind |-> "running", v |-> 0]
NoneValue == [kind |-> "None", v |-> 0]
IntValue(n) == [kind |-> "int", v |-> n]

\* ----------------------------------------------------------------- helpers
\* (only server errors raise; a 4xx answer is read as a page)
raise_for_status_Only5xx(status) == status >= 500 /\ status < 600

\* resp.raise_for_status(): an HTTPError for every 4xx and 5xx status.
raise_for_status(status) == status >= 400 /\ status < 600

\* (the retry keyed on 503 Service Unavailable instead of 429)
IsRateLimited_WrongStatus(status) == status = 503

\* r.status_code == 429
IsRateLimited(status) == status = 429

\* The records of a page of n records requested at offset off.
Batch(off, n) == [i \in 1..n |-> <<"row", off + i>>]

\* (a page shorter than limit taken for the end of the data)
IsEmpty_ShortPage(n) == n < limit

\* if not batch: break
IsEmpty(n) == n = 0

\* (the header written by every to_csv call)
HeaderWanted_Always(file) == TRUE

\* header=not out_path.exists()
HeaderWanted(file) == ~file.exists

\* (mode="w": each call replaces the file)
to_csv_Overwrite(file, records, header) ==
    [exists |-> TRUE,
     lines |-> (IF header THEN << <<"header", 0>> >> ELSE <<>>) \o records]

\* df.to_csv(out_path, index=False, mode="a", header=...): append, creating the file.
to_csv(file, records, header) ==
    [exists |-> TRUE,
     lines |-> file.lines \o (IF header THEN << <<"header", 0>> >> ELSE <<>>) \o records]

\* (the file at out_path left in place)
unlink_Missing(file) == file

\* (the file emptied instead of removed)
unlink_Truncates(file) == [exists |-> file.exists, lines |-> <<>>]

\* if out_path.exists(): out_path.unlink()
unlink(file) == IF file.exists THEN [exists |-> FALSE, lines |-> <<>>] ELSE file

\* (a cap compared with > instead of >=)
CapReached_Strict(cap, written) == cap # None /\ written > cap

\* if max_rows and total >= max_rows
CapReached(cap, written) == cap # None /\ written >= cap

\* (the page size counted instead of the records received)
NextTotal_CountsLimit(written, got) == written + limit

\* got = len(batch); total += got
NextTotal(written, got) == written + got

\* (the offset advanced by the records received instead of by limit)
NextOffset_ByGot(off, got) == off + got

\* offset += limit
NextOffset(off, got) == off + limit

\* (the row count handed back to the caller)
ReturnValue_Total(written) == IntValue(written)

\* The function ends after the print, with no return statement: None.
ReturnValue(written) == NoneValue

\* print(f"[{endpoint}] wrote {total} rows -> {out_path}")
print_wrote(out, written) == Append(out, written)

\* ------------------------------------------------------------------- Init
Init ==
    /\ pc = "call"
    /\ max_rows \in MaxRowsChoices
    /\ token = ""
    /\ offset = 0
    /\ total = 0
    /\ pre \in PreExisting
    /\ csv = pre
    /\ r = NoResponse
    /\ log = <<>>
    /\ recording = TRUE
    /\ result = Running
    /\ stdout = <<>>
    /\ rpc = "idle"
    /\ raw = <<>>
    /\ batch = <<>>
    /\ sheet = [exists |-> FALSE, lines |-> <<>>]
    /\ nwrites = 0

\* ---------------------------------------------------------------- actions
\* (the exchange tried a second time after a failure)
GetAppAccessToken_Retries ==
    /\ pc = "call"
    /\ \E status \in TokenStatuses :
         /\ log' = Logged(<< Ev("token", status, 0, "") >>)
         /\ IF raise_for_status(status)
            THEN /\ pc' = IF At("token") = {} THEN "call" ELSE "auth_error"
                 /\ token' = token
            ELSE /\ pc' = "reset"
                 /\ token' = "tok"
    /\ UNCHANGED <<max_rows, offset, total, csv, r, pre, recording, result, stdout, rowvars>>

\* (the file at out_path removed before the exchange is made)
GetAppAccessToken_ResetsFirst ==
    /\ pc = "call"
    /\ \E status \in TokenStatuses :
         /\ log' = Logged((IF csv.exists THEN << Ev("unlink", 0, 0, "") >> ELSE <<>>)
                           \o << Ev("token", status, 0, "") >>)
         /\ IF raise_for_status(status)
            THEN /\ pc' = "auth_error"
                 /\ token' = token
            ELSE /\ pc' = "reset"
                 /\ token' = "tok"
    /\ csv' = unlink(csv)
    /\ UNCHANGED <<max_rows, offset, total, r, pre, recording, result, stdout, rowvars>>

\* token = get_app_access_token(): one POST, raise_for_status, the token.
GetAppAccessToken ==
    /\ pc = "call"
    /\ \E status \in TokenStatuses :
         /\ log' = Logged(<< Ev("token", status, 0, "") >>)
         /\ IF raise_for_status(status)
            THEN /\ pc' = "auth_error"
                 /\ token' = token
            ELSE /\ pc' = "reset"
                 /\ token' = "tok"
    /\ UNCHANGED <<max_rows, offset, total, csv, r, pre, recording, result, stdout, rowvars>>

\* limit, offset, total are set and a file at out_path is removed.
ResetDestination ==
    /\ pc = "reset"
    /\ offset' = 0
    /\ total' = 0
    /\ csv' = unlink(csv)
    /\ log' = IF csv.exists THEN Logged(<< Ev("unlink", 0, 0, "") >>) ELSE log
    /\ pc' = "request"
    /\ UNCHANGED <<max_rows, token, r, pre, recording, result, stdout, rowvars>>

\* What the log tells: the 429 answers received and the batches written so far.
Count429 == Cardinality({i \in 1..Len(log) : log[i].op = "recv" /\ log[i].x = 429})
CountPages == Cardinality({i \in 1..Len(log) : log[i].op = "to_csv"})
\* The batches written so far, read off the offset when the run is not logged.
PagesSoFar == IF recording THEN CountPages ELSE offset \div limit

\* (a token fetched for every request)
PostQuery_FreshToken ==
    /\ pc = "request"
    /\ \E status \in Statuses, n \in BatchLens :
         /\ status = 200 \/ n = 0
         /\ status = 429 => Count429 < Max429
         /\ n > 0 => PagesSoFar < MaxPages
         /\ r' = [status_code |-> status, n |-> n]
         /\ log' = Logged(<< Ev("token", 200, 0, ""), Ev("post", offset, limit, token),
                             Ev("recv", status, n, "") >>)
    /\ pc' = "response"
    /\ UNCHANGED <<max_rows, token, offset, total, csv, pre, recording, result, stdout, rowvars>>

\* r = requests.post(...): the request goes out and the server answers.
PostQuery ==
    /\ pc = "request"
    /\ \E status \in Statuses, n \in BatchLens :
         /\ status = 200 \/ n = 0
         /\ status = 429 => Count429 < Max429
         /\ n > 0 => PagesSoFar < MaxPages
         /\ r' = [status_code |-> status, n |-> n]
         /\ log' = Logged(<< Ev("post", offset, limit, token), Ev("recv", status, n, "") >>)
    /\ pc' = "response"
    /\ UNCHANGED <<max_rows, token, offset, total, csv, pre, recording, result, stdout, rowvars>>

\* (a 429 answer raised like any other error status)
RateLimited_GivesUp ==
    /\ pc = "response"
    /\ IsRateLimited(r.status_code)
    /\ log' = Logged(<< Ev("raise", r.status_code, 0, "") >>)
    /\ pc' = "fetch_error"
    /\ UNCHANGED <<max_rows, token, offset, total, csv, r, pre, recording, result, stdout, rowvars>>

\* if r.status_code == 429: time.sleep(1.0); continue
RateLimited ==
    /\ pc = "response"
    /\ IsRateLimited(r.status_code)
    /\ log' = Logged(<< Ev("sleep", BackoffMs, 0, "") >>)
    /\ pc' = "request"
    /\ UNCHANGED <<max_rows, token, offset, total, csv, r, pre, recording, result, stdout, rowvars>>

\* r.raise_for_status() raises: the run ends with the HTTPError.
FetchError ==
    /\ pc = "response"
    /\ ~IsRateLimited(r.status_code)
    /\ raise_for_status(r.status_code)
    /\ log' = Logged(<< Ev("raise", r.status_code, 0, "") >>)
    /\ pc' = "fetch_error"
    /\ UNCHANGED <<max_rows, token, offset, total, csv, r, pre, recording, result, stdout, rowvars>>

\* batch = r.json(); if not batch: break
EmptyBatch ==
    /\ pc = "response"
    /\ ~IsRateLimited(r.status_code)
    /\ ~raise_for_status(r.status_code)
    /\ IsEmpty(r.n)
    /\ pc' = "done"
    /\ stdout' = print_wrote(stdout, total)
    /\ result' = ReturnValue(total)
    /\ UNCHANGED <<max_rows, token, offset, total, csv, r, pre, log, recording, rowvars>>

\* (the batch cut to what is left of the cap before it is written)
Flush_TruncatesToCap ==
    /\ pc = "response"
    /\ ~IsRateLimited(r.status_code)
    /\ ~raise_for_status(r.status_code)
    /\ ~IsEmpty(r.n)
    /\ LET header == HeaderWanted(csv)
           left == IF max_rows # None /\ max_rows - total < r.n
                   THEN max_rows - total ELSE r.n
           wrote == Ev("to_csv", left, IF header THEN 1 ELSE 0, "")
       IN /\ csv' = to_csv(csv, Batch(offset, left), header)
          /\ total' = NextTotal(total, left)
          /\ offset' = NextOffset(offset, r.n)
          /\ IF CapReached(max_rows, total')
             THEN /\ pc' = "done"
                  /\ log' = Logged(<< wrote >>)
                  /\ stdout' = print_wrote(stdout, total')
                  /\ result' = ReturnValue(total')
             ELSE /\ pc' = "request"
                  /\ log' = Logged(<< wrote, Ev("sleep", sleep_between, 0, "") >>)
                  /\ UNCHANGED <<result, stdout>>
    /\ UNCHANGED <<max_rows, token, r, pre, recording, rowvars>>

\* (no pause between a flush and the next request)
Flush_NoPacing ==
    /\ pc = "response"
    /\ ~IsRateLimited(r.status_code)
    /\ ~raise_for_status(r.status_code)
    /\ ~IsEmpty(r.n)
    /\ LET header == HeaderWanted(csv)
           wrote == Ev("to_csv", r.n, IF header THEN 1 ELSE 0, "")
       IN /\ csv' = to_csv(csv, Batch(offset, r.n), header)
          /\ total' = NextTotal(total, r.n)
          /\ offset' = NextOffset(offset, r.n)
          /\ log' = Logged(<< wrote >>)
          /\ IF CapReached(max_rows, total')
             THEN /\ pc' = "done"
                  /\ stdout' = print_wrote(stdout, total')
                  /\ result' = ReturnValue(total')
             ELSE /\ pc' = "request"
                  /\ UNCHANGED <<result, stdout>>
    /\ UNCHANGED <<max_rows, token, r, pre, recording, rowvars>>

\* A non-empty batch: written to the file, counted, then the cap check and
\* either the break or the pacing sleep.
Flush ==
    /\ pc = "response"
    /\ ~IsRateLimited(r.status_code)
    /\ ~raise_for_status(r.status_code)
    /\ ~IsEmpty(r.n)
    /\ LET header == HeaderWanted(csv)
           wrote == Ev("to_csv", r.n, IF header THEN 1 ELSE 0, "")
       IN /\ csv' = to_csv(csv, Batch(offset, r.n), header)
          /\ total' = NextTotal(total, r.n)
          /\ offset' = NextOffset(offset, r.n)
          /\ IF CapReached(max_rows, total')
             THEN /\ pc' = "done"
                  /\ log' = Logged(<< wrote >>)
                  /\ stdout' = print_wrote(stdout, total')
                  /\ result' = ReturnValue(total')
             ELSE /\ pc' = "request"
                  /\ log' = Logged(<< wrote, Ev("sleep", sleep_between, 0, "") >>)
                  /\ UNCHANGED <<result, stdout>>
    /\ UNCHANGED <<max_rows, token, r, pre, recording, rowvars>>

Next ==
    \/ GetAppAccessToken
    \/ ResetDestination
    \/ PostQuery
    \/ RateLimited
    \/ FetchError
    \/ EmptyBatch
    \/ Flush

Spec == Init /\ [][Next]_vars

\* The same run with the history left unrecorded, so that a run that never
\* ends stays within finitely many states: nothing then limits the 429
\* answers the server gives.  The interpreter always takes the next
\* statement and time.sleep returns, hence the weak fairness of Next.
InitLive ==
    /\ pc = "call"
    /\ max_rows \in MaxRowsChoices
    /\ token = ""
    /\ offset = 0
    /\ total = 0
    /\ pre \in PreExisting
    /\ csv = pre
    /\ r = NoResponse
    /\ log = <<>>
    /\ recording = FALSE
    /\ result = Running
    /\ stdout = <<>>
    /\ rpc = "idle"
    /\ raw = <<>>
    /\ batch = <<>>
    /\ sheet = [exists |-> FALSE, lines |-> <<>>]
    /\ nwrites = 0

LiveSpec == InitLive /\ [][Next]_vars /\ WF_vars(Next)

(***************************************************************************)
(* The records of a page.  Spec follows a run with the records of a page   *)
(* told apart only by their position; SpecRows follows what lines 64-77 do *)
(* to the records themselves, page after page, once the file at out_path   *)
(* has been removed.  A JSON value is a node [k, t, n, s, xs]: its key in  *)
(* the enclosing object ("" inside an array), its type, and its content:   *)
(* n of an int or bool, the characters s of a string, the members xs of an *)
(* array or object.  A record is the sequence of its fields in the order   *)
(* the server sent them; a text is the sequence of its characters.         *)
(***************************************************************************)
Node(k, t, n, s, xs) == [k |-> k, t |-> t, n |-> n, s |-> s, xs |-> xs]
JInt(k, n) == Node(k, "int", n, <<>>, <<>>)
JStr(k, s) == Node(k, "str", 0, s, <<>>)
JBool(k, b) == Node(k, "bool", IF b THEN 1 ELSE 0, <<>>, <<>>)
JNull(k) == Node(k, "null", 0, <<>>, <<>>)
JList(k, xs) == Node(k, "list", 0, <<>>, xs)
JDict(k, xs) == Node(k, "dict", 0, <<>>, xs)

\* Records an endpoint may send: fields omitted, arrays of every length,
\* a nested object, a null.
RecordPool ==
    { << JInt("id", 1), JStr("name", <<"a", "b">>),
         JList("platforms", << JInt("", 1), JInt("", 2), JInt("", 3) >>),
         JDict("cover", << JInt("a", 1), JInt("b", 2) >>) >>,
      << JInt("id", 12), JList("platforms", << JInt("", 7) >>) >>,
      << JInt("id", 3), JList("platforms", <<>>),
         JList("tags", << JStr("", <<"x">>), JStr("", <<"y", "z">>) >>),
         JNull("name"), JBool("hyped", TRUE) >> }

\* batch = r.json(): the non-empty pages.
RowBatches == UNION { [1..n -> RecordPool] : n \in 1..MaxBatchLen }

Digits == <<"0", "1", "2", "3", "4", "5", "6", "7", "8", "9">>

\* str(n) of an int.
RECURSIVE Decimal(_)
Decimal(n) ==
    IF n < 0 THEN <<"-">> \o Decimal(-n)
    ELSE IF n < 10 THEN << Digits[n + 1] >>
    ELSE Decimal(n \div 10) \o << Digits[(n % 10) + 1] >>

\* str(x) of a scalar.
PyStr(x) ==
    CASE x.t = "int" -> Decimal(x.n)
      [] x.t = "str" -> x.s
      [] x.t = "bool" -> IF x.n = 1 THEN <<"T", "r", "u", "e">>
                         ELSE <<"F", "a", "l", "s", "e">>
      [] x.t = "null" -> <<"N", "o", "n", "e">>

\* (a separator written after every part)
RECURSIVE PyJoin_Trailing(_, _)
PyJoin_Trailing(sep, parts) ==
    IF parts = <<>> THEN <<>>
    ELSE parts[1] \o sep \o PyJoin_Trailing(sep, SubSeq(parts, 2, Len(parts)))

\* sep.join(parts)
RECURSIVE PyJoin(_, _)
PyJoin(sep, parts) ==
    IF parts = <<>> THEN <<>>
    ELSE IF Len(parts) = 1 THEN parts[1]
    ELSE parts[1] \o sep \o PyJoin(sep, SubSeq(parts, 2, Len(parts)))

\* json.dumps(v, separators=(",", ":"))
RECURSIVE json_dumps(_)
json_dumps(x) ==
    CASE x.t = "int" -> Decimal(x.n)
      [] x.t = "str" -> <<"\"">> \o x.s \o <<"\"">>
      [] x.t = "bool" -> IF x.n = 1 THEN <<"t", "r", "u", "e">>
                         ELSE <<"f", "a", "l", "s", "e">>
      [] x.t = "null" -> <<"n", "u", "l", "l">>
      [] x.t = "list" ->
            <<"[">> \o PyJoin(<<",">>, [i \in 1..Len(x.xs) |-> json_dumps(x.xs[i])])
                    \o <<"]">>
      [] x.t = "dict" ->
            <<"{">> \o PyJoin(<<",">>,
                         [i \in 1..Len(x.xs) |->
                            <<"\"">> \o JStr("", x.xs[i].k).s \o <<"\"", ":">>
                                     \o json_dumps(x.xs[i])])
                    \o <<"}">>

\* (every value passed through str())
flatten_value_Stringifies(v) ==
    CASE v.t = "list" ->
            JStr(v.k, PyJoin(<<"|">>, [i \in 1..Len(v.xs) |-> PyStr(v.xs[i])]))
      [] v.t = "dict" -> JStr(v.k, json_dumps(v))
      [] OTHER -> JStr(v.k, PyStr(v))

\* The body of "for k, v in list(row.items())": a list is joined with "|",
\* a dict is dumped as compact JSON, any other value is left as it is.
flatten_value(v) ==
    CASE v.t = "list" ->
            JStr(v.k, PyJoin(<<"|">>, [i \in 1..Len(v.xs) |-> PyStr(v.xs[i])]))
      [] v.t = "dict" -> JStr(v.k, json_dumps(v))
      [] OTHER -> v

\* for row in batch: ... row[k] = ...
flatten_row(row) == [j \in 1..Len(row) |-> flatten_value(row[j])]

\* The keys of a record, in its order.
Keys(row) == [j \in 1..Len(row) |-> row[j].k]
\* s without the members that t has.
RECURSIVE Without(_, _)
Without(s, t) ==
    IF s = <<>> THEN <<>>
    ELSE (IF \E i \in 1..Len(t) : t[i] = s[1] THEN <<>> ELSE << s[1] >>)
         \o Without(SubSeq(s, 2, Len(s)), t)

\* pd.DataFrame(batch).columns: every key of the records, in the order of
\* its first appearance.
RECURSIVE DataFrameColumns(_)
DataFrameColumns(records) ==
    IF records = <<>> THEN <<>>
    ELSE LET before == DataFrameColumns(SubSeq(records, 1, Len(records) - 1))
         IN before \o Without(Keys(records[Len(records)]), before)

\* A cell of the frame: the record's value in that column, NaN when it has none.
NaN(col) == Node(col, "nan", 0, <<>>, <<>>)
Cell(row, col) ==
    IF \E j \in 1..Len(row) : row[j].k = col
    THEN row[CHOOSE j \in 1..Len(row) : row[j].k = col]
    ELSE NaN(col)

\* The header line of a frame and its data lines.
HeaderLine(cols) == [c \in 1..Len(cols) |-> Node(cols[c], "col", 0, <<>>, <<>>)]
DataLines(records, cols) ==
    [i \in 1..Len(records) |-> [c \in 1..Len(cols) |-> Cell(records[i], cols[c])]]

\* df = pd.DataFrame(batch); df.to_csv(out_path, index=False, mode="a",
\* header=not out_path.exists()), cell by cell.
frame_to_csv(file, records) ==
    LET cols == DataFrameColumns(records)
    IN [exists |-> TRUE,
        lines |-> file.lines
                  \o (IF HeaderWanted(file) THEN << HeaderLine(cols) >> ELSE <<>>)
                  \o DataLines(records, cols)]

\* The run stands in its loop, the file at out_path removed.
InitRows ==
    /\ pc = "request"
    /\ max_rows = None
    /\ token = "tok"
    /\ offset = 0
    /\ total = 0
    /\ pre = [exists |-> FALSE, lines |-> <<>>]
    /\ csv = pre
    /\ r = NoResponse
    /\ log = <<>>
    /\ recording = FALSE
    /\ result = Running
    /\ stdout = <<>>
    /\ rpc = "json"
    /\ raw = <<>>
    /\ batch = <<>>
    /\ sheet = [exists |-> FALSE, lines |-> <<>>]
    /\ nwrites = 0

runvars == <<pc, max_rows, token, offset, total, csv, r, pre, log, recording,
             result, stdout>>

\* batch = r.json(), a non-empty page
ParseBatch ==
    /\ rpc = "json"
    /\ nwrites < MaxRowPages
    /\ \E b \in RowBatches : raw' = b /\ batch' = b
    /\ rpc' = "flatten"
    /\ UNCHANGED <<sheet, nwrites, runvars>>

\* Flatten lists and nested dicts for CSV-friendliness
FlattenBatch ==
    /\ rpc = "flatten"
    /\ batch' = [i \in 1..Len(batch) |-> flatten_row(batch[i])]
    /\ rpc' = "write"
    /\ UNCHANGED <<raw, sheet, nwrites, runvars>>

\* df = pd.DataFrame(batch); df.to_csv(...)
WriteBatch ==
    /\ rpc = "write"
    /\ sheet' = frame_to_csv(sheet, batch)
    /\ nwrites' = nwrites + 1
    /\ rpc' = "json"
    /\ UNCHANGED <<raw, batch, runvars>>

NextRows ==
    \/ ParseBatch
    \/ FlattenBatch
    \/ WriteBatch

SpecRows == InitRows /\ [][NextRows]_vars

\* ------------------------------------------------- what the log tells
\* The page answers received (each stands right after its request in the log).
Answers == At("recv")
\* The answers that carried records.
Pages == {i \in Answers : log[i].x = 200 /\ log[i].y > 0}
\* An empty page has been received.
EmptySeen == \E i \in Answers : log[i].x = 200 /\ log[i].y = 0
\* The step being taken writes a batch to the file.
FlushStep == pc = "response" /\ total' # total
\* Length of the batch written last.
LastBatch == IF At("to_csv") = {} THEN 0
             ELSE log[CHOOSE i \in At("to_csv") : \A j \in At("to_csv") : j <= i].x
\* The last n lines of a file.
LastLines(lines, n) == SubSeq(lines, Len(lines) - n + 1, Len(lines))

\* ------------------------------------------------------------------ C1
\* C1 as stated: with row_cap = N the run ends with rows_written <= N, and
\* with rows_written = N unless the server returned an empty page first.
C1_AtMostCap ==
    (pc = "done" /\ max_rows # None) =>
        /\ total <= max_rows
        /\ (total = max_rows \/ EmptySeen)

\* C1 amended: with row_cap = N the run ends with rows_written >= N unless
\* the server returned an empty page before N rows were written; the batch
\* that reaches the cap is counted whole, so rows_written minus that last
\* batch is below N and rows_written <= N + page_size - 1.
C1_CapIsSoftCeiling ==
    (pc = "done" /\ max_rows # None) =>
        /\ total - LastBatch < max_rows
        /\ total <= max_rows + limit - 1
        /\ (EmptySeen => total < max_rows)
        /\ (~EmptySeen => total >= max_rows)

C1_Witness ==
    /\ pc = "done" /\ max_rows = 3 /\ total = 1 + limit
    /\ ~EmptySeen

\* ------------------------------------------------------------------ C2
\* C2: the row cap is checked only after a whole batch is flushed. A flush
\* that brings rows_written to row_cap or more writes every record of its
\* batch and ends the run; a flush that leaves rows_written below row_cap
\* does not end it; nothing is requested once the run is done. With
\* row_cap = 50 and a full first page the run ends with rows_written = 500.
C2_CapCheckedAfterWholeBatch ==
    /\ [][FlushStep =>
            /\ total' = total + r.n
            /\ Len(csv'.lines) >= r.n
            /\ LastLines(csv'.lines, r.n) = [i \in 1..r.n |-> <<"row", offset + i>>]
            /\ (max_rows # None /\ total' >= max_rows) => pc' = "done"
            /\ (max_rows # None /\ total' < max_rows) => pc' = "request"]_vars
    /\ [][pc # "done"]_vars
    /\ [](max_rows = 50 =>
            \A i \in Pages :
                ((\A j \in Pages : i <= j) /\ log[i].y = limit /\ pc # "response") =>
                    pc = "done" /\ total = limit /\ Pages = {i})

C2_Witness ==
    /\ pc = "done" /\ max_rows = 50 /\ total = limit
    /\ Cardinality(At("post")) = 1
    /\ Len(csv.lines) = 1 + limit

\* ------------------------------------------------------------------ C3
\* C3: the loop reaches Done only by an empty batch from a successful fetch
\* or by rows_written >= row_cap after a flush. A non-empty page shorter
\* than page_size is flushed and followed by a request at offset + page_size,
\* and a run without row_cap is done only after an empty page.
C3_OnlyTwoExits ==
    /\ [][(pc # "done" /\ pc' = "done") =>
            \/ r.status_code = 200 /\ r.n = 0 /\ UNCHANGED <<total, csv, offset>>
            \/ FlushStep /\ max_rows # None /\ total' >= max_rows]_vars
    /\ [][(pc = "response" /\ r.status_code = 200 /\ r.n > 0 /\ r.n < limit
           /\ ~(max_rows # None /\ total + r.n >= max_rows)) =>
            pc' = "request" /\ offset' = offset + limit /\ total' = total + r.n]_vars
    /\ [](pc = "done" /\ max_rows = None => EmptySeen)

C3_Witness ==
    /\ pc = "done" /\ max_rows = None /\ total = 4
    /\ \E i \in At("post") : log[i].x = 2 * limit
\* ------------------------------------------------------------------ C4
\* C4: offset starts at 0 and grows by exactly page_size on each flush of a
\* non-empty page and on no other step, whatever the page held: offset is
\* page_size times the pages flushed, every request carries the offset
\* page_size times the pages flushed before it, and limit = page_size = 500.
C4_OffsetIsPagesTimesLimit ==
    /\ [](/\ offset = limit * Cardinality(At("to_csv"))
          /\ \A i \in At("post") :
                /\ log[i].y = 500
                /\ log[i].x = 500 * Cardinality({j \in At("to_csv") : j < i}))
    /\ [][offset' # offset => FlushStep /\ offset' = offset + 500]_vars
    /\ [][FlushStep => offset' = offset + 500]_vars

C4_Witness ==
    /\ \E i \in At("post") : log[i].x = 2 * limit
    /\ total = 4

\* ------------------------------------------------------------------ C5
\* The requests made at an offset, and those of them answered 429.
RequestsAt(o) == {i \in At("post") : log[i].x = o}
RateLimitedAt(o) == {i \in RequestsAt(o) : log[i + 1].x = 429}

\* C5: each 429 answer is followed by exactly one backoff sleep and then the
\* same request again (same offset, limit and token), with offset,
\* rows_written and the file unchanged and no pacing sleep; a 429 never
\* raises. At an offset that got another answer, the requests made there
\* number 1 + the 429s received there.
C5_RetryOn429 ==
    /\ [][(pc = "response" /\ r.status_code = 429) =>
            /\ log' = Append(log, Ev("sleep", 1000, 0, ""))
            /\ pc' = "request"
            /\ UNCHANGED <<offset, total, csv, token>>]_vars
    /\ [](\A i \in Answers : log[i].x = 429 =>
            /\ i + 1 <= Len(log) => log[i + 1] = Ev("sleep", 1000, 0, "")
            /\ i + 2 <= Len(log) => log[i + 2] = log[i - 1])
    /\ [](\A i \in At("raise") : log[i].x # 429)
    /\ [](\A i \in At("post") : log[i + 1].x # 429 =>
            Cardinality(RequestsAt(log[i].x)) = 1 + Cardinality(RateLimitedAt(log[i].x)))

C5_Witness ==
    /\ pc = "done" /\ total = 3
    /\ Cardinality(RequestsAt(0)) = 2 /\ Cardinality(At("post")) = 2
    /\ Cardinality(At("sleep")) = 1
    /\ log[2] = Ev("post", 0, limit, "tok") /\ log[3].x = 429

\* ------------------------------------------------------------------ C6
\* The lines the batches received so far make: the header, then the records
\* of every page in the order the pages arrived.
RECURSIVE RowsUpTo(_)
RowsUpTo(k) ==
    IF k = 0 THEN <<>>
    ELSE RowsUpTo(k - 1) \o
         (IF k \in Pages
          THEN [j \in 1..log[k].y |-> <<"row", log[k - 1].x + j>>]
          ELSE <<>>)
FlushedFile ==
    IF Pages = {} THEN [exists |-> FALSE, lines |-> <<>>]
    ELSE [exists |-> TRUE, lines |-> << <<"header", 0>> >> \o RowsUpTo(Len(log))]

\* C6: an answer with a failure status other than 429 aborts the run with an
\* error: that step requests, sleeps and writes nothing, no step follows it,
\* and the file holds exactly the header and the rows of the pages flushed
\* before (no file when none was flushed).
C6_FetchErrorAborts ==
    /\ [][(pc = "response" /\ r.status_code >= 400 /\ r.status_code # 429) =>
            /\ pc' = "fetch_error"
            /\ log' = Append(log, Ev("raise", r.status_code, 0, ""))
            /\ UNCHANGED <<csv, total, offset>>]_vars
    /\ [][pc # "fetch_error"]_vars
    /\ [](pc = "fetch_error" =>
            /\ log[Len(log)].op = "raise" /\ log[Len(log) - 1].op = "recv"
            /\ log[Len(log) - 1].x = log[Len(log)].x
            /\ csv = FlushedFile
            /\ total = Len(RowsUpTo(Len(log))))

C6_Witness ==
    /\ pc = "fetch_error" /\ r.status_code = 404
    /\ Cardinality(Pages) = 2 /\ Len(csv.lines) = 1 + 3 + limit
    /\ pre.exists
\* ------------------------------------------------------------------ C7
\* C7: a failed token exchange aborts the run before any page request: the
\* exchange is made once, and the run neither requests a page, nor writes,
\* nor sleeps, nor takes another step.
C7_AuthErrorAborts ==
    /\ [](\A i \in At("token") : log[i].x # 200 =>
            /\ pc = "auth_error"
            /\ log = << Ev("token", log[i].x, 0, "") >>
            /\ token = "")
    /\ [](pc = "auth_error" =>
            At("token") = {1} /\ At("post") = {} /\ At("to_csv") = {} /\ At("sleep") = {})
    /\ [][pc # "auth_error"]_vars

C7_Witness ==
    /\ pc = "auth_error" /\ log = << Ev("token", 400, 0, "") >>

\* ------------------------------------------------------------------ C8
\* C8: after at least one flush the file holds exactly one header line, its
\* first line, written by the first flush; later flushes append rows only;
\* whether or not a file was at the destination before the run.
C8_HeaderOnce ==
    At("to_csv") # {} =>
        /\ csv.exists
        /\ csv.lines[1] = <<"header", 0>>
        /\ {i \in 1..Len(csv.lines) : csv.lines[i][1] = "header"} = {1}
        /\ \A i \in At("to_csv") :
              log[i].y = (IF \A j \in At("to_csv") : i <= j THEN 1 ELSE 0)

C8_Witness ==
    /\ Cardinality(At("to_csv")) = 2
    /\ pre.exists /\ pre.lines # <<>>
    /\ Len(csv.lines) = 1 + 2 * limit

\* ------------------------------------------------------------------ C9
\* The answers with status 200.
Successes == {i \in Answers : log[i].x = 200}

\* C9: when the first successful fetch, at offset 0, returns an empty page,
\* the run ends with rows_written = 0 after that one successful fetch and no
\* file is at the destination, also when one was there before the run.
C9_EmptyTable ==
    \A i \in Successes :
        ((\A j \in Successes : i <= j) /\ log[i].y = 0) =>
            /\ log[i - 1].x = 0
            /\ total = 0
            /\ ~csv.exists /\ csv.lines = <<>>
            /\ Successes = {i} /\ i = Len(log)
            /\ pc \in {"response", "done"}
            /\ pc = "response" => r = [status_code |-> 200, n |-> 0]

C9_Witness ==
    /\ pc = "done" /\ total = 0 /\ Pages = {}
    /\ pre.exists /\ pre.lines # <<>>
    /\ Count429 = 1

\* ----------------------------------------------------------------- C10
\* The lengths of the batches received, in order.
RECURSIVE BatchLengths(_)
BatchLengths(k) ==
    IF k = 0 THEN <<>>
    ELSE BatchLengths(k - 1) \o (IF k \in Pages THEN << log[k].y >> ELSE <<>>)
RECURSIVE Sum(_)
Sum(s) == IF s = <<>> THEN 0 ELSE s[1] + Sum(SubSeq(s, 2, Len(s)))
\* Row p of page k (counting pages from 1) stands at this line of the file.
LineOf(lens, k, p) == 1 + Sum(SubSeq(lens, 1, k - 1)) + p

\* C10: with no row_cap, k >= 1 non-empty batches at offsets 0, page_size,
\* ..., (k-1)*page_size and then an empty batch at k*page_size end the run
\* with rows_written the sum of the k batch lengths and a file of 1 header
\* line plus that many data lines, in page order.
C10_AllPagesThenEmpty ==
    (pc = "done" /\ max_rows = None /\ Pages # {}) =>
        LET lens == BatchLengths(Len(log))
            k == Len(lens)
        IN /\ total = Sum(lens)
           /\ Len(csv.lines) = 1 + Sum(lens)
           /\ csv.lines[1] = <<"header", 0>>
           /\ \A q \in 1..k : \A p \in 1..lens[q] :
                 csv.lines[LineOf(lens, q, p)] = <<"row", (q - 1) * limit + p>>
           /\ log[Len(log)] = Ev("recv", 200, 0, "")
           /\ log[Len(log) - 1] = Ev("post", k * limit, limit, "tok")

C10_Witness ==
    /\ pc = "done" /\ max_rows = None
    /\ BatchLengths(Len(log)) = <<limit, limit>>
    /\ total = 1000 /\ Len(csv.lines) = 1 + 1000
\* ----------------------------------------------------------------- C11
\* C11 as stated: on reaching Done the call returns the integer rows_written.
C11_ReturnsRowsWritten ==
    pc = "done" => result = IntValue(total)

\* C11 amended: on reaching Done the call prints rows_written (the cumulative
\* number of records flushed) once and returns None; before Done it has
\* printed and returned nothing, and a run that ends in an error returns
\* nothing either.
C11_PrintsRowsWrittenReturnsNone ==
    /\ pc = "done" =>
          /\ result = NoneValue
          /\ stdout = << total >>
          /\ total = Len(RowsUpTo(Len(log)))
    /\ pc # "done" => result = Running /\ stdout = <<>>

C11_Witness ==
    /\ pc = "done" /\ total = 1 + limit /\ stdout = << 1 + limit >>
    /\ result.kind = "None"
\* ----------------------------------------------------------------- C12
\* The step being taken writes a page of records to the file.
WriteStep == rpc = "write" /\ rpc' = "json"
\* The columns the header line of the file names.
HeaderKeys == [c \in 1..Len(sheet.lines[1]) |-> sheet.lines[1][c].k]
\* Every key of the record is a column of the header.
KeysInHeader(row) ==
    \A j \in 1..Len(row) : \E c \in 1..Len(HeaderKeys) : HeaderKeys[c] = row[j].k

\* C12: every data row of a later batch whose records' keys are a subset of
\* the header keys is written with one cell per header column, in header
\* order, the columns the record lacks left empty, also when the whole
\* batch lacks a header column.
C12_RowsAlignedToHeader ==
    [][(WriteStep /\ sheet.exists /\ \A i \in 1..Len(batch) : KeysInHeader(batch[i])) =>
          \A i \in 1..Len(batch) :
             LET line == sheet'.lines[Len(sheet.lines) + i]
             IN /\ Len(line) = Len(HeaderKeys)
                /\ \A c \in 1..Len(HeaderKeys) :
                      /\ line[c].k = HeaderKeys[c]
                      /\ line[c] = Cell(batch[i], HeaderKeys[c])]_vars

\* ----------------------------------------------------------------- C13
\* C13 as stated: after flattening every field value of every record is a
\* plain string.
C13_EveryValueIsString ==
    rpc = "write" =>
        \A i \in 1..Len(batch) : \A j \in 1..Len(batch[i]) : batch[i][j].t = "str"

\* C13 amended: after flattening no list and no nested mapping remains: a
\* list has become its "|"-joined string and a mapping one string of compact
\* JSON; a scalar value (string, number, boolean, null) is handed to the
\* writer as it was received, not converted to a string.
C13_NoListNoDictScalarsKept ==
    rpc = "write" =>
        /\ Len(batch) = Len(raw)
        /\ \A i \in 1..Len(batch) :
              /\ Len(batch[i]) = Len(raw[i])
              /\ \A j \in 1..Len(batch[i]) :
                    /\ batch[i][j].t \notin {"list", "dict"}
                    /\ batch[i][j].xs = <<>>
                    /\ raw[i][j].t \in {"list", "dict"} => batch[i][j].t = "str"
                    /\ raw[i][j].t \notin {"list", "dict"} => batch[i][j] = raw[i][j]
                    /\ raw[i][j].t = "dict" =>
                          /\ batch[i][j].s[1] = "{"
                          /\ batch[i][j].s[Len(batch[i][j].s)] = "}"
                          /\ \A m \in 1..Len(raw[i][j].xs) :
                                \E q \in 1..Len(batch[i][j].s) :
                                   batch[i][j].s[q] = raw[i][j].xs[m].k

C13_Witness ==
    /\ rpc = "write" /\ Len(batch) = 1 /\ Len(batch[1]) = 4
    /\ batch[1][1] = JInt("id", 1)
    /\ batch[1][2] = JStr("name", <<"a", "b">>)
    /\ batch[1][3].t = "str"
    /\ batch[1][4] =
          JStr("cover", <<"{", "\"", "a", "\"", ":", "1", ",", "\"", "b", "\"", ":", "2", "}">>)

\* ----------------------------------------------------------------- C14
\* The parts of a text between the delimiters.
RECURSIVE SplitOn(_, _)
SplitOn(text, d) ==
    IF \A q \in 1..Len(text) : text[q] # d THEN << text >>
    ELSE LET q == CHOOSE q \in 1..Len(text) :
                     text[q] = d /\ \A p \in 1..(q - 1) : text[p] # d
         IN << SubSeq(text, 1, q - 1) >> \o SplitOn(SubSeq(text, q + 1, Len(text)), d)

\* C14: a sequence-valued field flattens to the string forms of its elements
\* joined by "|" in their order, with no leading or trailing delimiter:
\* [1,2,3] becomes "1|2|3", one element becomes its string, the empty
\* sequence the empty string; every field keeps its key and its place.
C14_ListJoinedWithPipe ==
    rpc = "write" =>
        \A i \in 1..Len(batch) :
           /\ Keys(batch[i]) = Keys(raw[i])
           /\ \A j \in 1..Len(raw[i]) :
                 raw[i][j].t = "list" =>
                    LET xs == raw[i][j].xs
                        text == batch[i][j].s
                    IN /\ batch[i][j].t = "str"
                       /\ xs = <<>> => text = <<>>
                       /\ Len(xs) = 1 => text = PyStr(xs[1])
                       /\ xs # <<>> =>
                             /\ SplitOn(text, "|") = [m \in 1..Len(xs) |-> PyStr(xs[m])]
                             /\ text[1] # "|" /\ text[Len(text)] # "|"
                       /\ xs = << JInt("", 1), JInt("", 2), JInt("", 3) >> =>
                             text = <<"1", "|", "2", "|", "3">>

C14_Witness ==
    /\ rpc = "write" /\ Len(batch) = 2
    /\ Len(raw[1]) = 4 /\ Len(raw[2]) = 5
    /\ raw[1][3] = JList("platforms", << JInt("", 1), JInt("", 2), JInt("", 3) >>)
    /\ batch[1][3] = JStr("platforms", <<"1", "|", "2", "|", "3">>)
    /\ batch[2][2] = JStr("platforms", <<>>)
    /\ batch[2][3] = JStr("tags", <<"x", "|", "y", "z">>)
    /\ nwrites = 1
\* ----------------------------------------------------------------- C15
\* The rows written by the flushes up to entry i of the log.
WrittenBy(i) == Sum(BatchLengths(i))

\* C15: requests and flushes alternate in page order. A request is answered
\* before anything else happens, so at most one is outstanding; when a
\* request goes out every page received before it is in the file; exactly
\* one pacing sleep stands between a flush that does not end the run and the
\* next request, and none follows the flush that reaches row_cap.
C15_RequestsAndFlushesAlternate ==
    /\ [](\A i \in At("post") :
            /\ log[i + 1].op = "recv"
            /\ log[i].x > 0 =>
                  \E p \in At("post") :
                     /\ p + 2 < i
                     /\ log[p].x = log[i].x - limit
                     /\ log[p + 2].op = "to_csv" /\ log[p + 2].x = log[p + 1].y)
    /\ [][(pc = "request" /\ pc' = "response") =>
             /\ csv = FlushedFile
             /\ Len(csv.lines) = (IF Pages = {} THEN 0 ELSE 1 + total)]_vars
    /\ [](\A i \in At("to_csv") :
            IF i = Len(log)
            THEN pc = "done" /\ max_rows # None /\ WrittenBy(i) >= max_rows
            ELSE /\ log[i + 1] = Ev("sleep", 350, 0, "")
                 /\ i + 2 <= Len(log) => log[i + 2].op = "post"
                 /\ max_rows = None \/ WrittenBy(i) < max_rows)
    /\ [](\A i \in At("sleep") : log[i].x = 350 => log[i - 1].op = "to_csv")

C15_Witness ==
    /\ pc = "done" /\ max_rows = 1000 /\ total = 1000
    /\ Cardinality({i \in At("sleep") : log[i].x = 350}) = 1
    /\ Cardinality(At("to_csv")) = 2
    /\ Count429 = 1

\* ----------------------------------------------------------------- C16
\* C16: every run starts clean. Once the file at the destination has been
\* reset, offset = 0 and rows_written = 0 and no file is there; from then on
\* the destination holds only the header and the rows this run flushed,
\* never a line that was in the file before.
C16_StartsClean ==
    pc \notin {"call", "reset", "auth_error"} =>
        /\ At("post") = {} => offset = 0 /\ total = 0 /\ ~csv.exists
        /\ pre.exists => At("unlink") # {}
        /\ csv.exists <=> At("to_csv") # {}
        /\ \A q \in 1..Len(csv.lines) : csv.lines[q][1] # "old"
        /\ ~csv.exists => csv.lines = <<>>
        /\ csv.exists =>
              /\ csv.lines[1] = <<"header", 0>>
              \* (a page that has only just been received is not in the file yet)
              /\ LastLines(csv.lines, Len(csv.lines) - 1) = RowsUpTo(Len(log) - 1)

C16_Witness ==
    /\ pc = "fetch_error" /\ pre.exists /\ pre.lines # <<>>
    /\ csv.exists /\ Len(csv.lines) = 2

\* ----------------------------------------------------------------- C17
\* C17: a run makes exactly one token exchange, before its first page
\* request; every page request, retries after a 429 included, carries that
\* token, and the token is not acquired again.
C17_OneTokenPerRun ==
    /\ [](/\ Cardinality(At("token")) <= 1
          /\ pc # "call" => At("token") = {1}
          /\ \A i \in At("post") :
                /\ log[1] = Ev("token", 200, 0, "")
                /\ log[i].auth = "tok" /\ log[i].auth = token)
    /\ [][token # "" => token' = token]_vars

C17_Witness ==
    /\ Cardinality(At("post")) = 4 /\ Count429 = 2
    /\ \E i \in At("post") : log[i].x = limit /\ log[i + 1].x = 429

\* ----------------------------------------------------------------- C18
\* The data rows in the file.
DataRows == {q \in 1..Len(csv.lines) : csv.lines[q][1] = "row"}

\* C18: whenever a request is about to go out and at every exit of the run
\* (Done or a fatal error after the token exchange), rows_written equals the
\* number of data rows in the file and the sum of the lengths of the
\* non-empty batches received so far; rows_written never decreases.
C18_TotalCountsRowsInFile ==
    /\ [](pc \in {"request", "done", "fetch_error"} =>
            /\ total = Cardinality(DataRows)
            /\ total = Sum(BatchLengths(Len(log))))
    /\ [][total' >= total]_vars

C18_Witness ==
    /\ pc = "fetch_error" /\ total = 4 /\ Cardinality(DataRows) = 4

\* ----------------------------------------------------------------- C19
\* C19: the token is acquired before the destination is reset: up to the
\* reset, and for good when the exchange fails, the file that was at the
\* destination is there unchanged.
C19_AuthFailureLeavesFile ==
    /\ pc \in {"call", "auth_error", "reset"} => csv = pre
    /\ pc = "auth_error" => At("unlink") = {} /\ csv.lines = pre.lines
    /\ \A i \in At("unlink") : i = 2 /\ log[1] = Ev("token", 200, 0, "")

C19_Witness ==
    /\ pc = "auth_error" /\ pre.exists /\ pre.lines # <<>>
    /\ csv = pre /\ log[1].x = 503

\* ----------------------------------------------------------------- C20
\* The run is in its loop; it has ended; the offsets a run can be at.
InLoop == pc \in {"request", "response"}
Terminated == pc \in {"done", "fetch_error"}
Offsets == {k * limit : k \in 0..MaxPages}
\* The server's answer in hand is a 429; it is another answer; it is an empty
\* page.
Answered429 == pc = "response" /\ r.status_code = 429
AnsweredOther == pc = "response" /\ r.status_code # 429
AnsweredEmpty == pc = "response" /\ r.status_code = 200 /\ r.n = 0

\* C20: a run whose token exchange succeeded ends (done or the HTTPError of a
\* page request) when the server does not answer 429 for ever and either
\* max_rows is set or an empty page comes; and from a point of the loop after
\* which every answer is a 429, the run stays in the loop at the offset it
\* was at, asking again and again, never raising and never done.
C20_TerminatesUnless429Forever ==
    /\ (/\ <>(pc = "reset")
        /\ []<>(~InLoop \/ AnsweredOther)
        /\ (max_rows # None \/ <>AnsweredEmpty \/ <>(pc = "fetch_error")))
         => <>Terminated
    /\ \A o \in Offsets :
         []((InLoop /\ offset = o /\ [](pc = "response" => r.status_code = 429))
              => /\ [](InLoop /\ offset = o /\ result = Running)
                 /\ []<>(pc = "request")
                 /\ []<>Answered429)

C20_Witness ==
    /\ ~recording
    /\ pc = "request" /\ r.status_code = 429
    /\ offset = limit /\ total = 1 /\ max_rows = 3
====
